---- MODULE Spec2Model ----
(***************************************************************************)
(* birdseye: ebird_checklist.py (command-line pipeline) and                *)
(* generate_site.py (static page generator).                               *)
(*                                                                         *)
(* Python str values are sequences of one-character strings, so that       *)
(* urlparse, re.search, quote and html.escape are computed character by    *)
(* character.  JSON values are tagged records (Null, IntV, StrV, DictV,    *)
(* ListV).  A function that may raise returns [exc, val]: exc = "none"     *)
(* and the value, or the exception class and its argument.                 *)
(*                                                                         *)
(* Three specifications:                                                   *)
(*   Spec      one run of main(), every remote request split into the      *)
(*             moment it is sent and the moment its response arrives;      *)
(*   SpecParse extract_checklist_id on every URL up to MaxUrlLen;          *)
(*   SpecSite  generate_site called directly on bounded species lists.     *)
(***************************************************************************)
EXTENDS Integers, Sequences, FiniteSets, TLC

VARIABLES
    pc,             \* position of the run in main / get_checklist_species
    argv,           \* sys.argv[1:]
    checklist_url,  \* sys.argv[1]
    api_key,        \* load_api_key()
    checklist_id,   \* extract_checklist_id(checklist_url)
    taxonomy,       \* get_taxonomy(): species code -> [name, sci_name]
    checklist,      \* get_checklist(): the parsed response
    location,       \* line 116
    date,           \* line 117
    idx,            \* number of observations the loop of line 120 has finished
    species_list,   \* line 119
    requests,       \* every requests.get issued so far, in order
    inflight,       \* requests sent whose response has not arrived
    resp,           \* the response the last completed request got
    exc,            \* the exception propagating to main ("none" if none)
    exc_arg,        \* the argument the exception carries
    exc_origin,     \* the function that raised it
    stdout,         \* the lines printed so far
    stderr,         \* "traceback" once the interpreter reported an uncaught exception
    exit_code,      \* process exit status (-1 while running)
    file,           \* docs/index.html
    output_path     \* generate_site's return value

vars == <<pc, argv, checklist_url, api_key, checklist_id, taxonomy, checklist,
          location, date, idx, species_list, requests, inflight, resp, exc,
          exc_arg, exc_origin, stdout, stderr, exit_code, file, output_path>>

(***************************************************************************)
(* Bounds                                                                  *)
(***************************************************************************)
MaxUrlLen == 4
MaxObs == 2
MaxNameLen == 1
MaxCards == 2

(***************************************************************************)
(* Python values                                                           *)
(***************************************************************************)
Null == [t |-> "none"]
IntV(k) == [t |-> "int", n |-> k]
StrV(cs) == [t |-> "str", s |-> cs]
DictV(d) == [t |-> "dict", d |-> d]
ListV(l) == [t |-> "list", l |-> l]

\* bool(v)
Truthy(v) ==
    CASE v.t = "none" -> FALSE
      [] v.t = "int"  -> v.n # 0
      [] v.t = "str"  -> v.s # <<>>
      [] v.t = "dict" -> DOMAIN v.d # {}
      [] v.t = "list" -> v.l # <<>>

Ok(v) == [exc |-> "none", val |-> v]
Raise(e, arg) == [exc |-> e, val |-> arg]

\* The classes an exception is an instance of.  requests.JSONDecodeError
\* derives from both RequestException (InvalidJSONError) and ValueError
\* (json.JSONDecodeError); HTTPError and ConnectionError are RequestExceptions.
Bases(e) ==
    CASE e = "HTTPError"       -> {"HTTPError", "RequestException"}
      [] e = "ConnectionError" -> {"ConnectionError", "RequestException"}
      [] e = "JSONDecodeError" -> {"JSONDecodeError", "RequestException", "ValueError"}
      [] OTHER                 -> {e}

IsInstance(e, classes) == Bases(e) \cap classes # {}

\* All sequences over S of length at most n.
SeqsUpTo(S, n) == UNION {[1..k -> S] : k \in 0..n}

(***************************************************************************)
(* extract_checklist_id                                                    *)
(***************************************************************************)
Digits == {"0", "1", "2", "3", "4", "5", "6", "7", "8", "9"}
SchemeChars == {"S", "s", "a", "h"} \cup Digits \cup {"+", "-", "."}
AsciiAlpha == {"S", "s", "a", "h"}

\* str.find(c, start) for c among chars: the first index >= start, 0 if none
\* (indices are 1-based).
Find(s, chars, start) ==
    LET I == {k \in start..Len(s) : s[k] \in chars}
    IN  IF I = {} THEN 0 ELSE CHOOSE k \in I : \A j \in I : k <= j

\* str.rfind(c)
RFind(s, chars) ==
    LET I == {k \in 1..Len(s) : s[k] \in chars}
    IN  IF I = {} THEN 0 ELSE CHOOSE k \in I : \A j \in I : k >= j

\* urllib.parse.urlsplit, first step: the scheme is what precedes the first
\* ':' when that starts with a letter and holds scheme characters only.
HasScheme(url) ==
    /\ Find(url, {":"}, 1) > 1
    /\ url[1] \in AsciiAlpha
    /\ \A k \in 1..(Find(url, {":"}, 1) - 1) : url[k] \in SchemeChars

Scheme(url) ==
    IF HasScheme(url) THEN SubSeq(url, 1, Find(url, {":"}, 1) - 1) ELSE <<>>

StripScheme(url) ==
    IF HasScheme(url) THEN SubSeq(url, Find(url, {":"}, 1) + 1, Len(url)) ELSE url

\* urlsplit, second step (_splitnetloc): after a leading // the network
\* location runs to the first of / ? #.
StripNetloc(u) ==
    IF Len(u) >= 2 /\ u[1] = "/" /\ u[2] = "/"
    THEN IF Find(u, {"/", "?", "#"}, 3) = 0 THEN <<>>
         ELSE SubSeq(u, Find(u, {"/", "?", "#"}, 3), Len(u))
    ELSE u

\* The network location _splitnetloc cuts off: what stands between the leading
\* // and the first of / ? #.
Netloc(u) ==
    IF Len(u) >= 2 /\ u[1] = "/" /\ u[2] = "/"
    THEN IF Find(u, {"/", "?", "#"}, 3) = 0 THEN SubSeq(u, 3, Len(u))
         ELSE SubSeq(u, 3, Find(u, {"/", "?", "#"}, 3) - 1)
    ELSE <<>>

\* urlsplit raises ValueError("Invalid IPv6 URL") when the network location
\* holds one of [ and ] without the other.
InvalidIPv6Url == <<"Invalid IPv6 URL">>

UrlSplitRaises(url) ==
    (Find(Netloc(StripScheme(url)), {"["}, 1) # 0)
        # (Find(Netloc(StripScheme(url)), {"]"}, 1) # 0)

\* url.split(c, 1)[0]
Before(u, c) == IF Find(u, {c}, 1) = 0 THEN u ELSE SubSeq(u, 1, Find(u, {c}, 1) - 1)

\* urlsplit(url).path: scheme, network location, fragment and query are cut
\* off in that order; what is left still holds the ;params.
SplitPath(url) == Before(Before(StripNetloc(StripScheme(url)), "#"), "?")

\* urllib.parse._splitparams: the path without the ;params of its last segment.
SplitParams(p) ==
    IF RFind(p, {"/"}) = 0
    THEN Before(p, ";")
    ELSE IF Find(p, {";"}, RFind(p, {"/"})) = 0 THEN p
    ELSE SubSeq(p, 1, Find(p, {";"}, RFind(p, {"/"})) - 1)

\* urlparse(url).path.  uses_params holds the empty scheme and http, https,
\* ftp, ...: no scheme spelled with the model's alphabet is in it, except the
\* empty one.
UrlPath(url) ==
    IF Scheme(url) = <<>> /\ Find(SplitPath(url), {";"}, 1) # 0
    THEN SplitParams(SplitPath(url))
    ELSE SplitPath(url)

\* The end of the run of digits that starts at k (greedy \d+).
RECURSIVE DigitsEnd(_, _)
DigitsEnd(s, k) ==
    IF k + 1 <= Len(s) /\ s[k + 1] \in Digits THEN DigitsEnd(s, k + 1) ELSE k

\* ReSearchId with the pattern r'(S\d)': the + is missing.
ReSearchIdOneDigit(path) ==
    LET I == {k \in 1..(Len(path) - 1) : path[k] = "S" /\ path[k + 1] \in Digits}
    IN  IF I = {} THEN <<>>
        ELSE LET k == CHOOSE a \in I : \A b \in I : a <= b
             IN  SubSeq(path, k, k + 1)

\* re.search(r'(S\d+)', path).group(1), <<>> when there is no match: the
\* leftmost S that a digit follows, with all the digits after it.
ReSearchId(path) ==
    LET I == {k \in 1..(Len(path) - 1) : path[k] = "S" /\ path[k + 1] \in Digits}
    IN  IF I = {} THEN <<>>
        ELSE LET k == CHOOSE a \in I : \A b \in I : a <= b
             IN  SubSeq(path, k, DigitsEnd(path, k + 1))

\* extract_checklist_id returning an empty identifier instead of raising
ExtractChecklistIdOrEmpty(url) == Ok(ReSearchId(UrlPath(url)))

\* lines 21-29: urlparse runs first and its ValueError leaves the function
\* as it is; the function's own ValueError carries the URL.
ExtractChecklistId(url) ==
    IF UrlSplitRaises(url) THEN Raise("ValueError", InvalidIPv6Url)
    ELSE IF ReSearchId(UrlPath(url)) # <<>> THEN Ok(ReSearchId(UrlPath(url)))
    ELSE Raise("ValueError", url)

(***************************************************************************)
(* HTTP                                                                    *)
(***************************************************************************)
\* A response is [status, body]: the connection failed, the server answered
\* with a non-2xx status, or it answered 2xx with a body that is JSON or not.
Unparsable == [t |-> "unparsable"]
ConnFail == [status |-> "conn_fail", body |-> Null]
Non2xx == [status |-> "non2xx", body |-> Null]
Http200(body) == [status |-> "ok", body |-> body]
NoResp == [status |-> "none", body |-> Null]

\* requests.get(...); response.raise_for_status(); response.json()
FetchJson(r) ==
    IF r.status = "conn_fail" THEN Raise("ConnectionError", <<>>)
    ELSE IF r.status = "non2xx" THEN Raise("HTTPError", <<>>)
    ELSE IF r.body.t = "unparsable" THEN Raise("JSONDecodeError", <<>>)
    ELSE Ok(r.body)

\* try: ... except classes: the handler's value replaces a caught exception.
Catch(res, classes, handled) ==
    IF res.exc # "none" /\ IsInstance(res.exc, classes) THEN Ok(handled) ELSE res

\* dict.get(key, default)
Get(d, key, default) == IF key \in DOMAIN d.d THEN d.d[key] ELSE default

\* key in v
Contains(v, key) ==
    IF v.t = "dict" THEN Ok(key \in DOMAIN v.d)
    ELSE IF v.t = "list" THEN Ok(FALSE)
    ELSE Raise("TypeError", <<>>)

\* v[key] for a string key
Subscript(v, key) ==
    IF v.t = "dict"
    THEN IF key \in DOMAIN v.d THEN Ok(v.d[key]) ELSE Raise("KeyError", <<>>)
    ELSE Raise("TypeError", <<>>)

\* a or b
Or(a, b) == IF Truthy(a) THEN a ELSE b

(***************************************************************************)
(* get_taxonomy                                                            *)
(***************************************************************************)
\* The dict comprehension of lines 42-45 over taxonomy[k..]: a later record of
\* the same species code replaces an earlier one.
RECURSIVE BuildTaxonomy(_, _, _)
BuildTaxonomy(l, k, acc) ==
    IF k > Len(l) THEN Ok(acc)
    ELSE LET s == l[k]
         IN  IF s.t # "dict" THEN Raise("TypeError", <<>>)
             ELSE IF ~({"speciesCode", "comName"} \subseteq DOMAIN s.d)
             THEN Raise("KeyError", <<>>)
             ELSE BuildTaxonomy(l, k + 1,
                      (s.d.speciesCode.s :>
                          [name |-> s.d.comName.s,
                           sci_name |-> Get(s, "sciName", StrV(<<>>)).s]) @@ acc)

GetTaxonomy(r) ==
    LET f == FetchJson(r)
    IN  IF f.exc # "none" THEN f
        ELSE IF f.val.t # "list" THEN Raise("TypeError", <<>>)
        ELSE BuildTaxonomy(f.val.l, 1, <<>>)

(***************************************************************************)
(* get_species_photo                                                       *)
(***************************************************************************)
\* str.replace(old, new) for a one-character old
RECURSIVE Replace(_, _, _)
Replace(s, old, new) ==
    IF s = <<>> THEN <<>>
    ELSE (IF Head(s) = old THEN new ELSE <<Head(s)>>) \o Replace(Tail(s), old, new)

\* urllib.parse.quote of one character (safe='/'): letters, digits and _.-~/
\* are kept, every other character is percent-encoded.
QuoteChar(c) ==
    CASE c = " "  -> <<"%", "2", "0">>
      [] c = "&"  -> <<"%", "2", "6">>
      [] c = "<"  -> <<"%", "3", "C">>
      [] c = ">"  -> <<"%", "3", "E">>
      [] c = "\"" -> <<"%", "2", "2">>
      [] c = "'"  -> <<"%", "2", "7">>
      [] OTHER    -> <<c>>

RECURSIVE Quote(_)
Quote(s) == IF s = <<>> THEN <<>> ELSE QuoteChar(Head(s)) \o Quote(Tail(s))

\* line 50: the page title the summary request is made for
PhotoTitle(name) == Quote(Replace(name, " ", <<"_">>))

\* lines 55-61, the body of the try
GetSpeciesPhotoTry(r) ==
    LET f == FetchJson(r)
    IN  IF f.exc # "none" THEN f
        ELSE LET data == f.val
                 hasOrig == Contains(data, "originalimage")
                 hasThumb == Contains(data, "thumbnail")
             IN  IF hasOrig.exc # "none" THEN hasOrig
                 ELSE IF hasOrig.val
                 THEN LET img == Subscript(data, "originalimage")
                      IN  IF img.exc # "none" THEN img ELSE Subscript(img.val, "source")
                 ELSE IF hasThumb.val
                 THEN LET img == Subscript(data, "thumbnail")
                      IN  IF img.exc # "none" THEN img ELSE Subscript(img.val, "source")
                 ELSE Ok(Null)

\* lines 54-64: except (requests.RequestException, KeyError): pass; return None
PhotoExcept == {"RequestException", "KeyError"}

GetSpeciesPhoto(r) == Catch(GetSpeciesPhotoTry(r), PhotoExcept, Null)

(***************************************************************************)
(* get_checklist, get_location_name, format_date                           *)
(***************************************************************************)
GetChecklist(r) == FetchJson(r)

\* lines 84-86, the body of the try
GetLocationNameTry(r) ==
    LET f == FetchJson(r)
    IN  IF f.exc # "none" THEN f
        ELSE IF f.val.t # "dict" THEN Raise("AttributeError", <<>>)
        ELSE Ok(Get(f.val, "name", Null))

\* get_location_name with except requests.HTTPError
LocationExceptHttpOnly == {"HTTPError"}

\* lines 83-88: except requests.RequestException: return None
LocationExcept == {"RequestException"}

GetLocationName(r) == Catch(GetLocationNameTry(r), LocationExcept, Null)

\* Date and place strings are kept whole (a sequence of one piece): the
\* program only passes them on, and strptime is the table below.
DateTimeStr == <<"2026-02-07 14:30">>
DateOnlyStr == <<"2026-02-07">>
OtherDateStr == <<"soon">>
FormattedDate == <<"February 7, 2026">>
UnknownLocation == <<"Unknown Location">>

\* datetime.strptime(s, fmt) succeeds
Strptime(s, fmt) ==
    \/ fmt = "%Y-%m-%d %H:%M" /\ s = DateTimeStr
    \/ fmt = "%Y-%m-%d" /\ s = DateOnlyStr

FormatDate(obs_dt) ==
    IF Strptime(obs_dt, "%Y-%m-%d %H:%M") THEN FormattedDate
    ELSE IF Strptime(obs_dt, "%Y-%m-%d") THEN FormattedDate
    ELSE obs_dt

(***************************************************************************)
(* get_checklist_species: one observation                                  *)
(***************************************************************************)
\* line 121
ObsCode(obs) == Get(obs, "speciesCode", StrV(<<>>)).s

\* TaxonomyInfo with taxonomy.get(code, {"name": "", "sci_name": ""})
TaxonomyInfoNoFallback(tax, code) ==
    IF code \in DOMAIN tax THEN tax[code] ELSE [name |-> <<>>, sci_name |-> <<>>]

\* line 122: taxonomy.get(code, {"name": code, "sci_name": ""})
TaxonomyInfo(tax, code) ==
    IF code \in DOMAIN tax THEN tax[code] ELSE [name |-> code, sci_name |-> <<>>]

\* ResolveCount with the two count fields in the other order
ResolveCountAtmostFirst(obs) ==
    Get(obs, "howManyAtmost", Get(obs, "howManyAtleast", StrV(<<"X">>)))

\* line 125: obs.get("howManyAtleast", obs.get("howManyAtmost", "X"))
ResolveCount(obs) ==
    Get(obs, "howManyAtleast", Get(obs, "howManyAtmost", StrV(<<"X">>)))

\* lines 129-135
SpeciesEntry(tax, obs, photo) ==
    LET code == ObsCode(obs)
        info == TaxonomyInfo(tax, code)
    IN  [code |-> code, name |-> info.name, sci_name |-> info.sci_name,
         count |-> ResolveCount(obs), photo_url |-> photo]

(***************************************************************************)
(* load_api_key                                                            *)
(***************************************************************************)
\* env: os.environ.get("EBIRD_API_KEY"); dotenv: the value of the first
\* EBIRD_API_KEY= line of .env, Null when there is no file or no such line.
LoadApiKey(env, dotenv) == IF Truthy(env) THEN env ELSE dotenv

(***************************************************************************)
(* generate_site                                                           *)
(***************************************************************************)
\* The document is a sequence of pieces: Lit(s) is text of the template,
\* Ch(c) one character of an interpolated value.
Lit(s) == [k |-> "lit", v |-> s]
Ch(c) == [k |-> "ch", v |-> c]
Interp(cs) == [j \in 1..Len(cs) |-> Ch(cs[j])]

DigitChar(n) ==
    CASE n = 0 -> "0" [] n = 1 -> "1" [] n = 2 -> "2" [] n = 3 -> "3"
      [] n = 4 -> "4" [] n = 5 -> "5" [] n = 6 -> "6" [] n = 7 -> "7"
      [] n = 8 -> "8" [] n = 9 -> "9"

RECURSIVE IntToStr(_)
IntToStr(n) ==
    IF n < 10 THEN <<DigitChar(n)>> ELSE IntToStr(n \div 10) \o <<DigitChar(n % 10)>>

\* str(v)
Str(v) ==
    CASE v.t = "int"  -> IntToStr(v.n)
      [] v.t = "str"  -> v.s
      [] v.t = "none" -> <<"N", "o", "n", "e">>

\* html.escape(s) with quote=True: & first, then < > " '
Escape(s) ==
    LET s1 == Replace(s, "&", <<"&", "a", "m", "p", ";">>)
        s2 == Replace(s1, "<", <<"&", "l", "t", ";">>)
        s3 == Replace(s2, ">", <<"&", "g", "t", ";">>)
        s4 == Replace(s3, "\"", <<"&", "q", "u", "o", "t", ";">>)
    IN  Replace(s4, "'", <<"&", "#", "x", "2", "7", ";">>)

\* line 18 without the escape
EscapedNameRaw(bird) == bird.name

\* lines 18-19
EscapedName(bird) == Escape(bird.name)
EscapedCount(bird) == Escape(IF Truthy(bird.count) THEN Str(bird.count) ELSE <<"X">>)
\* line 23
EscapedPhoto(bird) == Escape(bird.photo_url.s)
\* line 36
EscapedChecklistUrl(url) == Escape(url)

\* lines 17-33: one card
Card(bird) ==
    LET img == IF Truthy(bird.photo_url)
               THEN <<Lit("<img src=\"")>> \o Interp(EscapedPhoto(bird))
                    \o <<Lit("\" alt=\"")>> \o Interp(EscapedName(bird))
                    \o <<Lit("\" loading=\"lazy\">")>>
               ELSE <<Lit("<div class=\"no-photo\">No photo available</div>")>>
    IN  <<Lit("<div class=\"card\">")>> \o img
        \o <<Lit("<div class=\"info\">"), Lit("<h2>")>> \o Interp(EscapedName(bird))
        \o <<Lit("</h2>"), Lit("<p>Count: ")>> \o Interp(EscapedCount(bird))
        \o <<Lit("</p>"), Lit("</div>"), Lit("</div>")>>

\* line 35: "\n".join(cards_html)
RECURSIVE JoinCards(_)
JoinCards(species) ==
    IF species = <<>> THEN <<>>
    ELSE IF Len(species) = 1 THEN Card(species[1])
    ELSE Card(species[1]) \o <<Lit("\n")>> \o JoinCards(Tail(species))

\* lines 38-73
Html(species, url) ==
    <<Lit("<!DOCTYPE html><html lang=\"en\"><head>...</head><body>"),
      Lit("<header>"), Lit("<h1>Bird Checklist</h1>"), Lit("<p>")>>
    \o Interp(IntToStr(Len(species)))
    \o <<Lit(" species &middot; <a href=\"")>> \o Interp(EscapedChecklistUrl(url))
    \o <<Lit("\">View on eBird</a></p>"), Lit("</header>"), Lit("<div class=\"grid\">")>>
    \o JoinCards(species)
    \o <<Lit("</div>"), Lit("</body></html>")>>

NoFile == [state |-> "absent", content |-> <<>>]
OutputPath == <<"docs/index.html">>

\* lines 13-78.  fs is what the filesystem does: "ok", or "oserror" when
\* os.makedirs or open fails (the file is left as it was).
GenerateSite(species, url, old, fs) ==
    IF fs = "ok"
    THEN [exc |-> "none", val |-> OutputPath,
          file |-> [state |-> "written", content |-> Html(species, url)]]
    ELSE [exc |-> "OSError", val |-> <<>>, file |-> old]

\* The parameters generate_site declares (line 7) and the keyword arguments
\* main passes it besides the two positional ones (ebird_checklist.py:196).
GenerateSiteParams == {"species", "checklist_url", "output_dir"}
MainCallKeywords == {"location", "date"}

\* Python binds a call only if every keyword names a parameter (there is no
\* **kwargs); otherwise the call raises TypeError before the body runs.
CallBinds == MainCallKeywords \subseteq GenerateSiteParams

(***************************************************************************)
(* The inputs of a run                                                     *)
(***************************************************************************)
UrlChars == {"S", "s", "1", "/", "?", "#", ":", ";", "["}
AllUrls == SeqsUpTo(UrlChars, MaxUrlLen)

\* /s/S1 (an identifier after a region segment), /s?S1 (an identifier in
\* the query only) and //[ (a network location urlparse rejects)
UrlSamples ==
    {<<"/", "s", "/", "S", "1">>, <<"/", "s", "?", "S", "1">>, <<"/", "/", "[">>}

KeyStr == StrV(<<"k">>)
EnvValues == {Null, StrV(<<>>), KeyStr}
DotenvValues == {Null, StrV(<<>>), KeyStr}

CodeGC == <<"g", "c">>
CodeAR == <<"a", "r">>
TaxonGC == DictV([speciesCode |-> StrV(CodeGC), comName |-> StrV(<<"G", " ", "C">>),
                  sciName |-> StrV(<<"D", "c">>)])
TaxonAR == DictV([speciesCode |-> StrV(CodeAR), comName |-> StrV(<<"A", "&", "R">>)])

TaxonomyResponses ==
    {ConnFail, Non2xx, Http200(Unparsable),
     Http200(ListV(<<DictV([comName |-> StrV(<<"G">>)])>>)),
     Http200(ListV(<<TaxonGC>>)),
     Http200(ListV(<<TaxonGC, TaxonAR>>))}

ObsSamples ==
    {DictV([speciesCode |-> StrV(CodeGC), howManyAtleast |-> IntV(3),
            howManyAtmost |-> IntV(3)]),
     DictV([speciesCode |-> StrV(CodeAR), howManyAtmost |-> IntV(5)]),
     DictV([speciesCode |-> StrV(CodeGC)]),
     DictV([speciesCode |-> StrV(CodeAR), howManyAtleast |-> IntV(0),
            howManyAtmost |-> IntV(5)]),
     DictV([howManyAtleast |-> Null])}

HeaderSamples ==
    {[locName |-> StrV(<<"Park">>), locId |-> StrV(<<"L1">>), obsDt |-> StrV(DateTimeStr)],
     [locId |-> StrV(<<"L1">>), obsDt |-> StrV(DateOnlyStr)],
     [locName |-> StrV(<<>>), obsDt |-> StrV(OtherDateStr)]}

Checklists ==
    {DictV([obs |-> ListV(o)] @@ h) : h \in HeaderSamples, o \in SeqsUpTo(ObsSamples, MaxObs)}

ChecklistResponses ==
    {ConnFail, Non2xx, Http200(Unparsable), Http200(ListV(<<>>))}
    \cup {Http200(c) : c \in Checklists}

LocationResponses ==
    {ConnFail, Non2xx, Http200(Unparsable), Http200(ListV(<<>>)),
     Http200(DictV(<<>>)), Http200(DictV([name |-> StrV(<<"Pond">>)]))}

ImageO == DictV([source |-> StrV(<<"o">>)])
ImageT == DictV([source |-> StrV(<<"t">>)])
PhotoResponses ==
    {ConnFail, Non2xx, Http200(Unparsable),
     Http200(DictV(<<>>)),
     Http200(DictV([originalimage |-> ImageO, thumbnail |-> ImageT])),
     Http200(DictV([thumbnail |-> ImageT])),
     Http200(DictV([originalimage |-> DictV(<<>>), thumbnail |-> ImageT])),
     Http200(DictV([originalimage |-> Null, thumbnail |-> ImageT]))}

\* generate_site called directly
NameChars == {"a", "<", ">", "&"}
SiteNames == SeqsUpTo(NameChars, MaxNameLen)
SiteBirds ==
    {[code |-> <<"c">>, name |-> n, sci_name |-> <<>>, count |-> k.count,
      photo_url |-> k.photo] :
        n \in SiteNames,
        k \in {[count |-> Null, photo |-> Null],
               [count |-> IntV(3), photo |-> StrV(<<"u", "\"", "&">>)]}}
SiteUrl == <<"S", "1", "&", "\"", "<">>
FsOutcomes == {"ok", "oserror"}

(***************************************************************************)
(* Initial states                                                          *)
(***************************************************************************)
Fresh ==
    /\ api_key = Null
    /\ checklist_id = <<>>
    /\ taxonomy = <<>>
    /\ checklist = Null
    /\ location = Null
    /\ date = <<>>
    /\ idx = 0
    /\ requests = <<>>
    /\ inflight = 0
    /\ resp = NoResp
    /\ exc = "none"
    /\ exc_arg = <<>>
    /\ exc_origin = "none"
    /\ stdout = <<>>
    /\ stderr = "none"
    /\ exit_code = -1
    /\ file = NoFile
    /\ output_path = <<>>

\* python ebird_checklist.py [<CHECKLIST_URL>]
Init ==
    /\ pc = "start"
    /\ argv \in {<<>>} \cup {<<u>> : u \in UrlSamples}
    /\ checklist_url = <<>>
    /\ species_list = <<>>
    /\ Fresh

\* extract_checklist_id(url) for every url
InitParse ==
    /\ pc = "extract"
    /\ argv = <<>>
    /\ checklist_url \in AllUrls
    /\ species_list = <<>>
    /\ Fresh

\* generate_site(species, checklist_url)
InitSite ==
    /\ pc = "site_direct"
    /\ argv = <<>>
    /\ checklist_url = SiteUrl
    /\ species_list \in SeqsUpTo(SiteBirds, MaxCards)
    /\ Fresh

(***************************************************************************)
(* Steps of a run                                                          *)
(***************************************************************************)
\* An exception leaves get_checklist_species / generate_site for main.
Throw(e, arg, origin) ==
    /\ exc' = e
    /\ exc_arg' = arg
    /\ exc_origin' = origin
    /\ pc' = "except"

\* requests.get is called: the request leaves, and the caller blocks.
Send(ep, arg, next) ==
    /\ requests' = Append(requests, [ep |-> ep, arg |-> arg])
    /\ inflight' = inflight + 1
    /\ resp' = NoResp
    /\ pc' = next

\* lines 164-168
MainUsage ==
    /\ pc = "start"
    /\ Len(argv) < 1
    /\ stdout' = <<"usage", "set your key", "get a key">>
    /\ exit_code' = 1
    /\ pc' = "exit"
    /\ UNCHANGED <<argv, checklist_url, api_key, checklist_id, taxonomy, checklist,
                   location, date, idx, species_list, requests, inflight, resp,
                   exc, exc_arg, exc_origin, stderr, file, output_path>>

\* lines 170-177
MainLoadKey ==
    /\ pc = "start"
    /\ Len(argv) >= 1
    /\ \E env \in EnvValues, dotenv \in DotenvValues :
         LET key == LoadApiKey(env, dotenv)
         IN  IF ~Truthy(key)
             THEN /\ stdout' = <<"no api key", "create .env", "or set variable">>
                  /\ exit_code' = 1
                  /\ pc' = "exit"
                  /\ UNCHANGED <<api_key, checklist_url>>
             ELSE /\ api_key' = key
                  /\ checklist_url' = argv[1]
                  /\ pc' = "extract"
                  /\ UNCHANGED <<stdout, exit_code>>
    /\ UNCHANGED <<argv, checklist_id, taxonomy, checklist, location, date, idx,
                   species_list, requests, inflight, resp, exc, exc_arg, exc_origin,
                   stderr, file, output_path>>

\* line 107
ExtractId ==
    /\ pc = "extract"
    /\ LET r == ExtractChecklistId(checklist_url)
       IN  IF r.exc # "none"
           THEN Throw(r.exc, r.val, "extract_checklist_id") /\ UNCHANGED checklist_id
           ELSE /\ checklist_id' = r.val
                /\ pc' = "taxonomy_send"
                /\ UNCHANGED <<exc, exc_arg, exc_origin>>
    /\ UNCHANGED <<argv, checklist_url, api_key, taxonomy, checklist, location,
                   date, idx, species_list, requests, inflight, resp, stdout,
                   stderr, exit_code, file, output_path>>

\* line 110 -> line 38
TaxonomySend ==
    /\ pc = "taxonomy_send"
    /\ Send("taxonomy", <<>>, "taxonomy_recv")
    /\ UNCHANGED <<argv, checklist_url, api_key, checklist_id, taxonomy, checklist,
                   location, date, idx, species_list, exc, exc_arg, exc_origin, stdout,
                   stderr, exit_code, file, output_path>>

\* lines 38-45
TaxonomyRecv ==
    /\ pc = "taxonomy_recv"
    /\ \E r \in TaxonomyResponses :
         /\ resp' = r
         /\ LET t == GetTaxonomy(r)
            IN  IF t.exc # "none"
                THEN Throw(t.exc, t.val, "get_taxonomy") /\ UNCHANGED taxonomy
                ELSE /\ taxonomy' = t.val
                     /\ pc' = "checklist_send"
                     /\ UNCHANGED <<exc, exc_arg, exc_origin>>
    /\ inflight' = inflight - 1
    /\ UNCHANGED <<argv, checklist_url, api_key, checklist_id, checklist, location,
                   date, idx, species_list, requests, stdout, stderr, exit_code,
                   file, output_path>>

\* line 113 -> line 72
ChecklistSend ==
    /\ pc = "checklist_send"
    /\ Send("checklist", checklist_id, "checklist_recv")
    /\ UNCHANGED <<argv, checklist_url, api_key, checklist_id, taxonomy, checklist,
                   location, date, idx, species_list, exc, exc_arg, exc_origin, stdout,
                   stderr, exit_code, file, output_path>>

\* lines 72-75 and 113-117: the response arrives; when it names the place the
\* run goes on to the loop, otherwise to get_location_name.
ChecklistRecv ==
    /\ pc = "checklist_recv"
    /\ \E r \in ChecklistResponses :
         /\ resp' = r
         /\ LET c == GetChecklist(r)
            IN  IF c.exc # "none"
                THEN /\ Throw(c.exc, c.val, "get_checklist")
                     /\ UNCHANGED <<checklist, location, date>>
                ELSE IF c.val.t # "dict"
                THEN /\ Throw("AttributeError", <<>>, "get_checklist_species")
                     /\ UNCHANGED <<checklist, location, date>>
                ELSE /\ checklist' = c.val
                     /\ UNCHANGED <<exc, exc_arg, exc_origin>>
                     /\ IF Truthy(Get(c.val, "locName", Null))
                        THEN /\ location' = Get(c.val, "locName", Null)
                             /\ date' = FormatDate(Get(c.val, "obsDt", StrV(<<>>)).s)
                             /\ pc' = "loop"
                        ELSE /\ pc' = "location_send"
                             /\ UNCHANGED <<location, date>>
    /\ inflight' = inflight - 1
    /\ UNCHANGED <<argv, checklist_url, api_key, checklist_id, taxonomy, idx,
                   species_list, requests, stdout, stderr, exit_code, file,
                   output_path>>

\* line 116 -> line 84
LocationSend ==
    /\ pc = "location_send"
    /\ Send("location", Get(checklist, "locId", StrV(<<>>)).s, "location_recv")
    /\ UNCHANGED <<argv, checklist_url, api_key, checklist_id, taxonomy, checklist,
                   location, date, idx, species_list, exc, exc_arg, exc_origin, stdout,
                   stderr, exit_code, file, output_path>>

\* lines 84-88 and 116-117
LocationRecv ==
    /\ pc = "location_recv"
    /\ \E r \in LocationResponses :
         /\ resp' = r
         /\ LET l == GetLocationName(r)
            IN  IF l.exc # "none"
                THEN /\ Throw(l.exc, l.val, "get_location_name")
                     /\ UNCHANGED <<location, date>>
                ELSE /\ location' = Or(l.val, StrV(UnknownLocation))
                     /\ date' = FormatDate(Get(checklist, "obsDt", StrV(<<>>)).s)
                     /\ pc' = "loop"
                     /\ UNCHANGED <<exc, exc_arg, exc_origin>>
    /\ inflight' = inflight - 1
    /\ UNCHANGED <<argv, checklist_url, api_key, checklist_id, taxonomy, checklist,
                   idx, species_list, requests, stdout, stderr, exit_code, file,
                   output_path>>

\* the observations with every record that repeats an earlier one left out
RECURSIVE Dedup(_)
Dedup(l) ==
    IF l = <<>> THEN <<>>
    ELSE LET front == Dedup(SubSeq(l, 1, Len(l) - 1))
         IN  IF \E k \in 1..(Len(l) - 1) : l[k] = l[Len(l)]
             THEN front ELSE Append(front, l[Len(l)])

ObservationsDedup == Dedup(Get(checklist, "obs", ListV(<<>>)).l)

\* checklist.get("obs", [])
Observations == Get(checklist, "obs", ListV(<<>>)).l

\* lines 120-127 -> line 55: the next observation's name is looked up
PhotoSend ==
    /\ pc = "loop"
    /\ idx < Len(Observations)
    /\ LET obs == Observations[idx + 1]
           name == TaxonomyInfo(taxonomy, ObsCode(obs)).name
       IN  Send("photo", PhotoTitle(name), "photo_recv")
    /\ UNCHANGED <<argv, checklist_url, api_key, checklist_id, taxonomy, checklist,
                   location, date, idx, species_list, exc, exc_arg, exc_origin, stdout,
                   stderr, exit_code, file, output_path>>

\* lines 55-64 and 129-135
PhotoRecv ==
    /\ pc = "photo_recv"
    /\ \E r \in PhotoResponses :
         /\ resp' = r
         /\ LET p == GetSpeciesPhoto(r)
            IN  IF p.exc # "none"
                THEN /\ Throw(p.exc, p.val, "get_species_photo")
                     /\ UNCHANGED <<idx, species_list>>
                ELSE /\ species_list' = Append(species_list,
                            SpeciesEntry(taxonomy, Observations[idx + 1], p.val))
                     /\ idx' = idx + 1
                     /\ pc' = "loop"
                     /\ UNCHANGED <<exc, exc_arg, exc_origin>>
    /\ inflight' = inflight - 1
    /\ UNCHANGED <<argv, checklist_url, api_key, checklist_id, taxonomy, checklist,
                   location, date, requests, stdout, stderr, exit_code, file,
                   output_path>>

\* lines 137-141 and 180-193: the loop is over, main prints the table
PrintSummary ==
    /\ pc = "loop"
    /\ idx = Len(Observations)
    /\ stdout' = <<"location and date", "species count", "columns", "rule">>
                 \o [k \in 1..Len(species_list) |-> "bird"]
    /\ pc' = "site"
    /\ UNCHANGED <<argv, checklist_url, api_key, checklist_id, taxonomy, checklist,
                   location, date, idx, species_list, requests, inflight, resp,
                   exc, exc_arg, exc_origin, stderr, exit_code, file, output_path>>

\* generate_site's body; when it returns to main, lines 197-198 print and
\* main ends (status 0)
SiteBody(done, status) ==
    \E fs \in FsOutcomes :
        LET g == GenerateSite(species_list, checklist_url, file, fs)
        IN  /\ file' = g.file
            /\ IF g.exc # "none"
               THEN /\ Throw(g.exc, g.val, "generate_site")
                    /\ UNCHANGED <<output_path, stdout, exit_code>>
               ELSE /\ output_path' = g.val
                    /\ stdout' = stdout \o <<"generated site", "to share">>
                    /\ exit_code' = status
                    /\ pc' = done
                    /\ UNCHANGED <<exc, exc_arg, exc_origin>>

\* lines 195-198
MainGenerateSite ==
    /\ pc = "site"
    /\ IF CallBinds
       THEN SiteBody("exit", 0)
       ELSE /\ Throw("TypeError", <<>>, "generate_site")
            /\ UNCHANGED <<file, output_path, stdout, exit_code>>
    /\ UNCHANGED <<argv, checklist_url, api_key, checklist_id, taxonomy, checklist,
                   location, date, idx, species_list, requests, inflight, resp,
                   stderr>>

\* generate_site(species, checklist_url) called with what it declares
DirectGenerateSite ==
    /\ pc = "site_direct"
    /\ SiteBody("site_done", exit_code)
    /\ UNCHANGED <<argv, checklist_url, api_key, checklist_id, taxonomy, checklist,
                   location, date, idx, species_list, requests, inflight, resp,
                   stderr>>

\* lines 200-205
MainExcept(e) ==
    IF IsInstance(e, {"HTTPError"}) THEN [out |-> <<"API error">>, err |-> "none"]
    ELSE IF IsInstance(e, {"ValueError"}) THEN [out |-> <<"Error">>, err |-> "none"]
    ELSE [out |-> <<>>, err |-> "traceback"]

\* lines 200-205; an exception no clause names ends the interpreter with a
\* traceback and status 1
Except ==
    /\ pc = "except"
    /\ stdout' = stdout \o MainExcept(exc).out
    /\ stderr' = MainExcept(exc).err
    /\ exit_code' = 1
    /\ pc' = "exit"
    /\ UNCHANGED <<argv, checklist_url, api_key, checklist_id, taxonomy, checklist,
                   location, date, idx, species_list, requests, inflight, resp,
                   exc, exc_arg, exc_origin, file, output_path>>

Next ==
    \/ MainUsage
    \/ MainLoadKey
    \/ ExtractId
    \/ TaxonomySend
    \/ TaxonomyRecv
    \/ ChecklistSend
    \/ ChecklistRecv
    \/ LocationSend
    \/ LocationRecv
    \/ PhotoSend
    \/ PhotoRecv
    \/ PrintSummary
    \/ MainGenerateSite
    \/ Except

Spec == Init /\ [][Next]_vars

NextParse == ExtractId

SpecParse == InitParse /\ [][NextParse]_vars

NextSite == DirectGenerateSite

SpecSite == InitSite /\ [][NextSite]_vars

(***************************************************************************)
(* Properties                                                              *)
(***************************************************************************)
\* t is the letter S followed by one or more digits
IsIdToken(t) == Len(t) >= 2 /\ t[1] = "S" /\ \A k \in 2..Len(t) : t[k] \in Digits

\* an identifier-shaped token starts at position k of p
TokenStartsAt(p, k) == k + 1 <= Len(p) /\ p[k] = "S" /\ p[k + 1] \in Digits

\* the part of url before its first ? or #
BeforeQueryAndFragment(url) ==
    IF Find(url, {"?", "#"}, 1) = 0 THEN url
    ELSE SubSeq(url, 1, Find(url, {"?", "#"}, 1) - 1)

\* what extract_checklist_id does with a URL whose path is p: it returns the
\* first identifier token of p, the whole of it, and when p holds none it
\* raises ValueError carrying the URL
ExtractsFrom(p) ==
    LET starts == {k \in 1..Len(p) : TokenStartsAt(p, k)}
    IN  /\ starts # {} =>
            /\ exc = "none"
            /\ IsIdToken(checklist_id)
            /\ \E a \in starts :
                 /\ \A b \in starts : a <= b
                 /\ SubSeq(p, a, a + Len(checklist_id) - 1) = checklist_id
                 /\ \/ a + Len(checklist_id) > Len(p)
                    \/ p[a + Len(checklist_id)] \notin Digits
        /\ starts = {} =>
            /\ exc = "ValueError"
            /\ exc_origin = "extract_checklist_id"
            /\ exc_arg = checklist_url
            /\ checklist_id = <<>>

\* no identifier token stands before the URL's query and fragment
NoTokenBeforeQuery ==
    \A k \in 1..Len(BeforeQueryAndFragment(checklist_url)) :
        ~TokenStartsAt(BeforeQueryAndFragment(checklist_url), k)

\* C5 as stated, for every URL: extract_checklist_id returns the identifier
\* token of the URL's path, whatever surrounds it, and when the path holds no
\* token (also when one stands only in the query or the fragment) it raises
\* ValueError carrying the URL.
C5_ExtractIdAnyUrl ==
    pc # "extract" =>
        /\ ExtractsFrom(UrlPath(checklist_url))
        /\ NoTokenBeforeQuery => exc = "ValueError" /\ exc_arg = checklist_url

\* C5, amended: for every URL that urlparse splits, extract_checklist_id
\* returns the identifier token of the URL's path (the whole token: S with
\* every digit that follows it, the first one when the path holds several),
\* whatever surrounds it, and when the path holds no token, and so when a
\* token stands only in the query or the fragment, it raises ValueError
\* carrying the URL; a URL that urlparse rejects fails with urlparse's own
\* ValueError, which does not carry the URL.
C5_ExtractId ==
    pc # "extract" =>
        /\ ~UrlSplitRaises(checklist_url) =>
              /\ ExtractsFrom(UrlPath(checklist_url))
              /\ NoTokenBeforeQuery => exc = "ValueError" /\ exc_arg = checklist_url
        /\ UrlSplitRaises(checklist_url) =>
              /\ exc = "ValueError"
              /\ exc_origin = "extract_checklist_id"
              /\ exc_arg = InvalidIPv6Url
              /\ checklist_id = <<>>

\* an identifier of two digits after another path segment has been extracted
C5_Witness ==
    /\ pc = "taxonomy_send"
    /\ checklist_url \in {<<"/", "S", "1", "1">>, <<"s", "/", "S", "1", "1">>}
    /\ checklist_id = <<"S", "1", "1">>

\* the observation record the k-th species entry was built from
ObsOf(k) == checklist.d.obs.l[k]

\* C9: an entry whose species code is not in the taxonomy map has the code as
\* its name and an empty scientific name; a code in the map gets the map's
\* name; every observation the loop has passed has its entry.
C9_NameFallback ==
    /\ Len(species_list) = idx
    /\ \A k \in 1..Len(species_list) :
         LET code == IF "speciesCode" \in DOMAIN ObsOf(k).d
                     THEN ObsOf(k).d.speciesCode.s ELSE <<>>
             e == species_list[k]
         IN  /\ e.code = code
             /\ code \notin DOMAIN taxonomy => e.name = code /\ e.sci_name = <<>>
             /\ code \in DOMAIN taxonomy => e.name = taxonomy[code].name

\* the run got to the page with an entry named by its code
C9_Witness ==
    /\ pc = "site"
    /\ \E k \in 1..Len(species_list) :
         /\ species_list[k].code = CodeAR
         /\ CodeAR \notin DOMAIN taxonomy
         /\ species_list[k].name = CodeAR

\* the record has the field and its value is truthy
HasTruthy(obs, key) == key \in DOMAIN obs.d /\ Truthy(obs.d[key])

\* C2 as stated: the count is howManyAtleast when present and truthy,
\* otherwise howManyAtmost when present and truthy, otherwise "X".
C2_CountTruthy ==
    \A k \in 1..Len(species_list) :
        species_list[k].count =
            IF HasTruthy(ObsOf(k), "howManyAtleast") THEN ObsOf(k).d.howManyAtleast
            ELSE IF HasTruthy(ObsOf(k), "howManyAtmost") THEN ObsOf(k).d.howManyAtmost
            ELSE StrV(<<"X">>)

\* C2 amended: the count is howManyAtleast's value whenever the record has
\* that field (null and 0 included), otherwise howManyAtmost's value
\* whenever the record has that field, otherwise "X".
C2_CountPresent ==
    \A k \in 1..Len(species_list) :
        species_list[k].count =
            IF "howManyAtleast" \in DOMAIN ObsOf(k).d THEN ObsOf(k).d.howManyAtleast
            ELSE IF "howManyAtmost" \in DOMAIN ObsOf(k).d THEN ObsOf(k).d.howManyAtmost
            ELSE StrV(<<"X">>)

\* an entry keeps a howManyAtleast of 0 although howManyAtmost is 5, and
\* another entry has the marker
C2_Witness ==
    /\ pc = "site"
    /\ \E k \in 1..Len(species_list) :
         /\ species_list[k].count = IntV(0)
         /\ HasTruthy(ObsOf(k), "howManyAtmost")
    /\ \E k \in 1..Len(species_list) : species_list[k].count = StrV(<<"X">>)

\* the species code of the k-th observation (line 121)
CodeOf(k) ==
    IF "speciesCode" \in DOMAIN ObsOf(k).d THEN ObsOf(k).d.speciesCode.s ELSE <<>>

\* the page title requested for the k-th observation
TitleOf(k) ==
    PhotoTitle(IF CodeOf(k) \in DOMAIN taxonomy THEN taxonomy[CodeOf(k)].name
               ELSE CodeOf(k))

PhotoRequests == SelectSeq(requests, LAMBDA q : q.ep = "photo")

\* the number of observation records of the checklist received
NumObs == IF checklist = Null THEN 0 ELSE Len(checklist.d.obs.l)

\* C7: at most one request is ever in flight; the photo requests issued so
\* far are those of the first observations of the checklist, one each, in
\* checklist order, repeated species included; the species list holds one
\* entry per observation whose lookup has returned, in the same order (one
\* request more than entries only while the last lookup has not returned);
\* and when the loop is left every observation has had its request and has
\* its entry.
C7_OnePhotoPerObservation ==
    /\ inflight \in {0, 1}
    /\ Len(PhotoRequests) \in {idx, idx + 1}
    /\ Len(PhotoRequests) = idx + 1 <=>
           (pc = "photo_recv" \/ exc_origin = "get_species_photo")
    /\ Len(PhotoRequests) <= NumObs
    /\ \A k \in 1..Len(PhotoRequests) : PhotoRequests[k].arg = TitleOf(k)
    /\ Len(species_list) = idx
    /\ \A k \in 1..Len(species_list) : species_list[k].code = CodeOf(k)
    /\ (pc = "site" \/ exc_origin = "generate_site") =>
           Len(PhotoRequests) = NumObs /\ Len(species_list) = NumObs

\* the loop has ended on a checklist that lists the same species twice: two
\* requests for the same title, two entries
C7_Witness ==
    /\ pc = "site"
    /\ NumObs = 2
    /\ ObsOf(1) = ObsOf(2)
    /\ Len(PhotoRequests) = 2
    /\ PhotoRequests[1] = PhotoRequests[2]
    /\ Len(species_list) = 2

Rank(ep) ==
    CASE ep = "taxonomy" -> 1 [] ep = "checklist" -> 2
      [] ep = "location" -> 3 [] ep = "photo" -> 4

Endpoints == [k \in 1..Len(requests) |-> requests[k].ep]

\* the URL given has no identifier token in its path
UrlHasNoId ==
    \A k \in 1..Len(UrlPath(checklist_url)) : ~TokenStartsAt(UrlPath(checklist_url), k)

\* C10: requests are issued in the order taxonomy, checklist, location (at
\* most one of each), photos, and the file is written last; a URL without an
\* identifier means no request; a failed taxonomy request is the only
\* request of its run, a failed checklist request the second and last; in
\* these runs the output file is left as it was.
C10_FixedOrder ==
    /\ \A a, b \in 1..Len(requests) :
         a < b => /\ Rank(requests[a].ep) <= Rank(requests[b].ep)
                  /\ Rank(requests[b].ep) < 4 => Rank(requests[a].ep) < Rank(requests[b].ep)
    /\ Len(requests) >= 1 => requests[1].ep = "taxonomy"
    /\ Len(requests) >= 2 => requests[2].ep = "checklist" /\ requests[2].arg = checklist_id
    /\ file # NoFile => pc = "exit" /\ Len(PhotoRequests) = NumObs
    /\ UrlHasNoId => requests = <<>> /\ file = NoFile
    /\ exc_origin = "extract_checklist_id" => requests = <<>> /\ file = NoFile
    /\ exc_origin = "get_taxonomy" => Endpoints = <<"taxonomy">> /\ file = NoFile
    /\ exc_origin = "get_checklist" =>
           Endpoints = <<"taxonomy", "checklist">> /\ file = NoFile

\* a run has ended on a failed checklist request
C10_Witness ==
    /\ pc = "exit"
    /\ exc_origin = "get_checklist"
    /\ Endpoints = <<"taxonomy", "checklist">>
    /\ resp \in {ConnFail, Non2xx, Http200(Unparsable)}

\* the request failed: no connection, a non-2xx status, or an unparsable body
IsRequestFailure(r) ==
    \/ r.status \in {"conn_fail", "non2xx"}
    \/ r.status = "ok" /\ r.body = Unparsable

LastIsLocation == requests # <<>> /\ requests[Len(requests)].ep = "location"

\* C6: a location request is made only for a checklist without a (non-empty)
\* locName; when that request fails, get_location_name raises nothing and
\* the run goes on with "Unknown Location".
C6_LocationSoft ==
    /\ (\E k \in 1..Len(requests) : requests[k].ep = "location") =>
           checklist # Null /\ ~HasTruthy(checklist, "locName")
    /\ (LastIsLocation /\ resp # NoResp /\ IsRequestFailure(resp)) =>
           /\ exc_origin # "get_location_name"
           /\ pc # "location_recv"
           /\ location = StrV(UnknownLocation)

\* the lookup failed on the connection and the run is in the loop
C6_Witness ==
    /\ LastIsLocation
    /\ resp = ConnFail
    /\ pc = "loop"
    /\ "locName" \notin DOMAIN checklist.d
    /\ location = StrV(UnknownLocation)

\* C4 as stated: get_species_photo never raises, whatever the summary request
\* gets, and the loop goes on: every response is followed by an entry.
C4_PhotoNeverRaises ==
    /\ exc_origin # "get_species_photo"
    /\ pc \notin {"photo_recv"} => Len(species_list) = Len(PhotoRequests)

\* C3 as stated: a run that ends on a failed URL parse, taxonomy fetch or
\* checklist fetch has caught the exception, printed one line, exited with a
\* non-zero status and repeated no request.
C3_FatalCaught ==
    (pc = "exit" /\ exc_origin \in {"extract_checklist_id", "get_taxonomy", "get_checklist"}) =>
        /\ stderr = "none"
        /\ Len(stdout) = 1
        /\ exit_code # 0
        /\ \A a, b \in 1..Len(requests) : requests[a] = requests[b] => a = b

\* C1 as stated: a run whose URL parse, taxonomy fetch and checklist fetch
\* succeeded and that reached generate_site without a filesystem error has
\* written docs/index.html and got its path back.
C1_SiteWritten ==
    (/\ pc = "exit"
     /\ checklist_id # <<>>
     /\ checklist # Null
     /\ exc_origin \in {"none", "generate_site"}
     /\ exc # "OSError") =>
        /\ file.state = "written"
        /\ file.content = Html(species_list, checklist_url)
        /\ output_path = OutputPath
        /\ exit_code = 0

\* characters that open or close markup
MarkupChars == {"<", ">", "\"", "'"}

Entities ==
    {[text |-> <<"&", "a", "m", "p", ";">>, char |-> "&"],
     [text |-> <<"&", "l", "t", ";">>, char |-> "<"],
     [text |-> <<"&", "g", "t", ";">>, char |-> ">"],
     [text |-> <<"&", "q", "u", "o", "t", ";">>, char |-> "\""],
     [text |-> <<"&", "#", "x", "2", "7", ";">>, char |-> "'"]}

\* the interpolated characters at k.. spell the entity e
EntityAt(doc, k, e) ==
    /\ k + Len(e.text) - 1 <= Len(doc)
    /\ \A j \in 1..Len(e.text) : doc[k + j - 1] = Ch(e.text[j])

\* what a browser takes for markup: the template's text and every
\* interpolated character that opens or closes a tag or an attribute value
Markup(doc) == SelectSeq(doc, LAMBDA x : x.k = "lit" \/ x.v \in MarkupChars)

\* the position of the n-th piece Lit(l) of doc
NthLit(doc, l, n) ==
    CHOOSE q \in 1..Len(doc) :
        /\ doc[q] = Lit(l)
        /\ Cardinality({r \in 1..q : doc[r] = Lit(l)}) = n

\* the interpolated characters between position q and the next template text
RunAfter(doc, q) ==
    LET stop == CHOOSE r \in (q + 1)..Len(doc) :
                    doc[r].k = "lit" /\ \A j \in (q + 1)..(r - 1) : doc[j].k = "ch"
    IN  [j \in 1..(stop - q - 1) |-> doc[q + j].v]

\* the text a browser shows for cs
RECURSIVE Unescape(_)
Unescape(cs) ==
    IF cs = <<>> THEN <<>>
    ELSE IF \E e \in Entities : Len(e.text) <= Len(cs) /\ SubSeq(cs, 1, Len(e.text)) = e.text
    THEN LET e == CHOOSE e \in Entities :
                      Len(e.text) <= Len(cs) /\ SubSeq(cs, 1, Len(e.text)) = e.text
         IN  <<e.char>> \o Unescape(SubSeq(cs, Len(e.text) + 1, Len(cs)))
    ELSE <<Head(cs)>> \o Unescape(Tail(cs))

\* the species list with every character of every name replaced by a letter
PlainNames(species) ==
    [k \in 1..Len(species) |->
        [species[k] EXCEPT !.name = [j \in 1..Len(species[k].name) |-> "a"]]]

\* C8: in the document generate_site writes, no interpolated character is a
\* raw < > " or ', every interpolated & starts an entity, the markup is that
\* of the same list with plain names, and there is one card per species, in
\* order, showing its name and count, with the link to the checklist URL.
C8_Escaped ==
    (pc = "site_done" /\ file.state = "written") =>
        LET doc == file.content
        IN  /\ \A k \in 1..Len(doc) : doc[k].k = "ch" => doc[k].v \notin MarkupChars
            /\ \A k \in 1..Len(doc) :
                 doc[k] = Ch("&") => \E e \in Entities : EntityAt(doc, k, e)
            /\ Markup(doc) = Markup(Html(PlainNames(species_list), checklist_url))
            /\ Cardinality({k \in 1..Len(doc) : doc[k] = Lit("<div class=\"card\">")})
                   = Len(species_list)
            /\ \A n \in 1..Len(species_list) :
                 /\ Unescape(RunAfter(doc, NthLit(doc, "<h2>", n))) = species_list[n].name
                 /\ Unescape(RunAfter(doc, NthLit(doc, "<p>Count: ", n)))
                        = IF Truthy(species_list[n].count)
                          THEN Str(species_list[n].count) ELSE <<"X">>
                 /\ Truthy(species_list[n].photo_url) =>
                        Unescape(RunAfter(doc, NthLit(doc, "<img src=\"",
                            Cardinality({m \in 1..n : Truthy(species_list[m].photo_url)}))))
                        = species_list[n].photo_url.s
            /\ Unescape(RunAfter(doc, NthLit(doc, " species &middot; <a href=\"", 1)))
                   = checklist_url

\* a page of two cards has been written, the first for a species whose name
\* holds <, the second with a photo and a name that holds &
C8_Witness ==
    /\ pc = "site_done"
    /\ file.state = "written"
    /\ Len(species_list) = 2
    /\ species_list[1].name = <<"<">>
    /\ species_list[2].name = <<"&">>
    /\ Truthy(species_list[2].photo_url)

====
